---- MODULE Spec2Model ----
(***************************************************************************)
(* PCMPlayer (src/index.tsx) and the Web Audio / animation-frame platform  *)
(* it drives.                                                              *)
(*                                                                         *)
(* Units.  The output-context clock (audioContext.currentTime) advances in *)
(* ticks of one sample period.  Positions (pauseOffset, seek arguments,    *)
(* buffer durations, getCurrentTime) are counted in units of 1/DefaultRate *)
(* of a sample period, so that the two rates of the UI, 1.0 and 0.75, are  *)
(* the integers 4 and 3 and position = offset + elapsed * rate stays in    *)
(* the integers.                                                           *)
(*                                                                         *)
(* Platform behaviour taken from the Web Audio specification:              *)
(*  - an AudioBufferSourceNode dispatches one "ended" event, as a task on  *)
(*    the event loop, when it stops emitting: at the end of its buffer     *)
(*    (non-looping) or because stop() was called on it;                    *)
(*  - start(0, offset) clamps offset into [0, duration];                   *)
(*  - currentTime only advances while the context is running;              *)
(*  - all pending resume() promises are resolved in one task, so the       *)
(*    continuations of the awaiting play() calls run back to back as       *)
(*    microtasks before any other task; a resume() may also be rejected,   *)
(*    and then every awaiting play() throws at its await;                  *)
(*  - createBuffer(1, numberOfFrames, rate) throws NotSupportedError when  *)
(*    numberOfFrames is zero.                                              *)
(* The program never suspends the context, so once running it stays so.    *)
(***************************************************************************)
EXTENDS Integers, Sequences, FiniteSets, Bags, TLC

\* ------------------------------------------------------------- bounds ----
MaxTime == 2
MaxSources == 3
MaxWaiters == 2
MaxLen == 3
MaxLines == 2
MaxClients == 4

\* ---------------------------------------------------------- constants ----
DefaultRate == 4
Rates == {3, 4}
Int16Scale == 32768

\* raw PCM inputs of load(): no sample (one byte), 1 sample (even length),
\* 2 samples (odd length)
PcmInputs == { <<7>>, <<0, 128>>, <<255, 127, 1, 0, 7>> }

\* the byte values and the byte sequences the decoder is checked on
Bytes == {0, 1, 127, 128, 255}
ByteSeqs == UNION { [1..n -> Bytes] : n \in 0..MaxLen }

\* arguments of seek(): 0 and 2 lie within every loaded buffer; 6 lies beyond
\* the end of the one-sample buffer (the rewind button seeks to
\* getCurrentTime() - 10, which no duration bounds)
SeekTargets == {0, 2, 6}

\* the (onProgress, onEnded, loop) triples play() is called with
\* (bySeek is history: FALSE for a call of the player's caller)
PlayArgs ==
  { [onProgress |-> "p1",   onEnded |-> "e1",   loop |-> FALSE, bySeek |-> FALSE],
    [onProgress |-> "p2",   onEnded |-> "e2",   loop |-> TRUE,  bySeek |-> FALSE],
    [onProgress |-> "none", onEnded |-> "none", loop |-> FALSE, bySeek |-> FALSE] }

Min(a, b) == IF a < b THEN a ELSE b
Max(a, b) == IF a > b THEN a ELSE b

\* ------------------------------------------------- shared audio context ----
SampleRate == 24000

\* new AudioContextClass({ sampleRate: 24000 }): the platform starts it
\* suspended until a user gesture resumes it
NewAudioContext == [state |-> "suspended", sampleRate |-> SampleRate]

\* getSharedAudioContext() that constructs a context on every call
getSharedAudioContextAlwaysNew(g) ==
  [contexts |-> Append(g.contexts, NewAudioContext),
   shared |-> Len(g.contexts) + 1]

\* getSharedAudioContext() on the module state g; the context it returns is
\* the field shared of its result
getSharedAudioContext(g) ==
  IF g.shared = 0
    THEN [contexts |-> Append(g.contexts, NewAudioContext),
          shared |-> Len(g.contexts) + 1]
    ELSE g

\* ---------------------------------------------------- active-line mapping ----
\* audioProgress is a percentage; it is kept in thousandths (percent * 10), so
\* that 99.9 is the integer 999 and 100 is ProgressScale
ProgressScale == 1000
NoActiveLine == 0 - 1

\* text lengths of dialogue lines, and the dialogues rendered
TextLens == {0, 5}
Dialogues == UNION { [1..n -> TextLens] : n \in 0..MaxLines }
Progresses == {0, 1, 250, 500, 750, 998, 999, 1000, 1100}
AppStates == {"IDLE", "PLAYING_AUDIO"}

\* dialogue.lines.reduce((sum, l) => sum + l.text.length + 5, 0), over the
\* first k lines: the value of acc when findIndex reaches line k (from 0)
RECURSIVE accBefore(_, _)
accBefore(lines, k) ==
  IF k = 0 THEN 0 ELSE accBefore(lines, k - 1) + lines[k] + 5

totalChars(lines) == accBefore(lines, Len(lines))

\* a predicate that excludes both ends of the span of line i
lineMatchesOpen(lines, audioProgress, i) ==
  LET start == accBefore(lines, i)
      end == start + lines[i + 1] + 5
      scaledPos == audioProgress * totalChars(lines)
  IN  scaledPos > start * ProgressScale /\ scaledPos < end * ProgressScale

\* the predicate of findIndex for line i (from 0), with
\* currentPos = (audioProgress / 100) * totalChars compared after multiplying
\* both sides by ProgressScale
lineMatches(lines, audioProgress, i) ==
  LET start == accBefore(lines, i)
      end == start + lines[i + 1] + 5
      scaledPos == audioProgress * totalChars(lines)
  IN  scaledPos >= start * ProgressScale /\ scaledPos <= end * ProgressScale

\* Array.prototype.findIndex: the first index that matches, or -1
findIndex(lines, audioProgress) ==
  LET hits == { i \in 0..(Len(lines) - 1) :
                  lineMatches(lines, audioProgress, i) }
  IN  IF hits = {} THEN NoActiveLine
      ELSE CHOOSE i \in hits : \A j \in hits : i <= j

activeLineIndex(in) ==
  IF \/ (in.appState # "PLAYING_AUDIO" /\ ~in.isPlaying
          /\ in.audioProgress = 0)
     \/ in.audioProgress >= ProgressScale - 1
    THEN NoActiveLine
    ELSE findIndex(in.lines, in.audioProgress)

\* ------------------------------------------------------------ decoder ----
\* getInt16 that reads the two bytes in big-endian order
getInt16BigEndian(pcmData, i) ==
  LET u == 256 * pcmData[2 * i + 1] + pcmData[2 * i + 2]
  IN  IF u >= Int16Scale THEN u - 2 * Int16Scale ELSE u

\* DataView.getInt16(i * 2, littleEndian = true), i counted from 0
getInt16(pcmData, i) ==
  LET u == pcmData[2 * i + 1] + 256 * pcmData[2 * i + 2]
  IN  IF u >= Int16Scale THEN u - 2 * Int16Scale ELSE u

NullBuffer == [loaded |-> FALSE, channelData |-> <<>>, error |-> "none"]

\* BaseAudioContext.createBuffer(1, numberOfFrames, sampleRate) throws a
\* NotSupportedError when numberOfFrames is zero; the exception leaves
\* rawPcmToAudioBuffer and no buffer is returned
NotSupportedError ==
  [loaded |-> FALSE, channelData |-> <<>>, error |-> "NotSupportedError"]

\* channelData[i] is kept as the numerator of getInt16 / 32768.0
rawPcmToAudioBuffer(pcmData) ==
  LET usableLength == Len(pcmData) - (Len(pcmData) % 2)
      numSamples == usableLength \div 2
  IN  IF numSamples = 0 THEN NotSupportedError
      ELSE [loaded |-> TRUE,
            channelData |-> [i \in 1..numSamples |-> getInt16(pcmData, i - 1)],
            error |-> "none"]

\* AudioBuffer.duration = length / sampleRate, in position units
Duration(b) == Len(b.channelData) * DefaultRate

\* -------------------------------------------------------------- state ----
VARIABLES
  ctxState,          \* sharedAudioContext.state: "suspended" | "running"
  ctxTime,           \* sharedAudioContext.currentTime, in ticks
  buffer, source, isPlaying, playbackRate, pauseOffset, startTime,
  onProgressCb, onEndedCb, loop, animationFrameId,   \* PCMPlayer fields
  others,            \* bag of the nodes the player created and no longer
                     \* refers to, that still emit or still owe their event
  created,           \* number of nodes created so far
  rafQueue,          \* ids of the pending requestAnimationFrame requests
  waiters,           \* play() calls suspended at "await resume()"
  microtasks,        \* their continuations, once the resume has resolved
  tornDown,          \* the view has stopped the player and dropped its ref
  lastOp,            \* history: the operation or event of the last step
  calls,             \* history: callbacks invoked in the last step
  started,           \* history of the node this.source refers to: the offset
                     \* given to start(), whether its rate never changed and
                     \* whether it was started by the restart inside seek()
  pcmData,           \* decoder on its own: the bytes given to it
  decoded,           \* decoder on its own: whether it ran, and its outcome
  lineIn,            \* active-line mapping on its own: the values it reads
  activeLine,        \* active-line mapping on its own: whether it ran, result
  contexts,          \* shared context on its own: every AudioContext ever
                     \* constructed, in order of construction
  sharedAudioContext,\* the module variable: 0 for null, else an index
  clients,           \* the holders of a context reference: PCMPlayer
                     \* instances (their audioContext field) and view
                     \* handlers (their ctx), and whether they await a resume
  view,              \* DialogueCard: its React state, as of the last render
  toggles,           \* DialogueCard: the handlePlayToggle calls suspended at
                     \* an await, with the values their closures captured
  waveIn,            \* waveform renderer on its own: the buffer it is given
  wave,              \* waveform renderer on its own: the next pixel column,
                     \* the bar of the last one, and the samples read so far
  gen,               \* service call on its own: where safeGenerateContent
                     \* is, its parameters, and the history of the call
  diff               \* dictation diff on its own: the word lists and the
                     \* local variables of getDictationDiff

playerVars == << ctxState, ctxTime, buffer, source, isPlaying, playbackRate,
                 pauseOffset, startTime, onProgressCb, onEndedCb, loop,
                 animationFrameId, others, created, rafQueue, waiters,
                 microtasks, tornDown, lastOp, calls, started >>

decVars == << pcmData, decoded >>

lineVars == << lineIn, activeLine >>

ctxVars == << contexts, sharedAudioContext, clients >>

viewVars == << view, toggles >>

waveVars == << waveIn, wave >>

\* the state of the pure functions that are checked on their own
pureVars == << waveVars, gen, diff >>

vars == << playerVars, decVars, lineVars, ctxVars, viewVars, pureVars >>

World ==
  [ctxState |-> ctxState, ctxTime |-> ctxTime, buffer |-> buffer,
   source |-> source, isPlaying |-> isPlaying, playbackRate |-> playbackRate,
   pauseOffset |-> pauseOffset, startTime |-> startTime,
   onProgressCb |-> onProgressCb, onEndedCb |-> onEndedCb, loop |-> loop,
   animationFrameId |-> animationFrameId, others |-> others,
   created |-> created, rafQueue |-> rafQueue, waiters |-> waiters,
   microtasks |-> microtasks, calls |-> <<>>, started |-> started]

CommitPlayer(w, op) ==
  /\ ctxState' = w.ctxState
  /\ ctxTime' = w.ctxTime
  /\ buffer' = w.buffer
  /\ source' = w.source
  /\ isPlaying' = w.isPlaying
  /\ playbackRate' = w.playbackRate
  /\ pauseOffset' = w.pauseOffset
  /\ startTime' = w.startTime
  /\ onProgressCb' = w.onProgressCb
  /\ onEndedCb' = w.onEndedCb
  /\ loop' = w.loop
  /\ animationFrameId' = w.animationFrameId
  /\ others' = w.others
  /\ created' = w.created
  /\ rafQueue' = w.rafQueue
  /\ waiters' = w.waiters
  /\ microtasks' = w.microtasks
  /\ calls' = w.calls
  /\ started' = w.started
  /\ lastOp' = op

\* a step of the player on its own: the view is not mounted
Commit(w, op) ==
  /\ CommitPlayer(w, op)
  /\ UNCHANGED << decVars, lineVars, ctxVars, viewVars, pureVars >>

NotStarted == [offset |-> 0, steady |-> TRUE, bySeek |-> FALSE]

\* lastOp: the call or event, whether isPlaying held before it, the argument
\* of a seek, and the onEnded captured by the handler of a delivered event
Op(name, was) == [op |-> name, wasPlaying |-> was, arg |-> 0, cb |-> "none"]

\* a step of the platform rather than a call of the player's interface
Event == Op("event", FALSE)

\* the delivery of an "ended" event, of a node that finished its buffer
\* (natural) or of one that was halted by stop()
EndedEvent(n) ==
  [Op(IF n.state = "finished" THEN "endedNatural" ELSE "endedStopped", FALSE)
     EXCEPT !.cb = n.onEnded]

\* ----------------------------------------------------------- platform ----
\* requestAnimationFrame: a request id no pending request carries
requestAnimationFrame(w) ==
  CHOOSE id \in 1..(Cardinality(w.rafQueue) + 1) :
    /\ id \notin w.rafQueue
    /\ \A j \in 1..(id - 1) : j \in w.rafQueue

\* if (this.animationFrameId) cancelAnimationFrame(this.animationFrameId)
cancelAnimationFrame(w) ==
  IF w.animationFrameId # 0
    THEN [w EXCEPT !.rafQueue = @ \ {w.animationFrameId}]
    ELSE w

\* An AudioBufferSourceNode.  state is "playing" (emitting), "stopped" or
\* "finished" (silent after stop() / after the end of its buffer, its "ended"
\* event queued), "dead" (event delivered), or "null" for no node.  Of a node
\* that no longer renders only the onEnded its handler captured is observable.
Node(how, cb) ==
  [buffer |-> NullBuffer, rate |-> DefaultRate, loop |-> FALSE, pos |-> 0,
   state |-> how, onEnded |-> cb]

NoSource == Node("null", "none")

EndedQueued(n) == n.state \in {"stopped", "finished"}

\* AudioBufferSourceNode.stop(): a node that is emitting stops and its
\* "ended" event is queued; a node that already stopped is left alone
NodeStop(n) ==
  IF n.state = "playing" THEN Node("stopped", n.onEnded) ELSE n

\* AudioParam playbackRate.value = rate; it only matters to a node that renders
NodeSetRate(n, rate) ==
  IF n.state = "playing" THEN [n EXCEPT !.rate = rate] ELSE n

\* one tick of the rendering thread for one node
NodeAdvance(n) ==
  IF n.state # "playing" THEN n
  ELSE LET d == Duration(n.buffer)
           np == n.pos + n.rate
       IN  IF n.loop
             THEN [n EXCEPT !.pos = IF d > 0 THEN np % d ELSE 0]
             ELSE IF np >= d
                    THEN Node("finished", n.onEnded)
                    ELSE [n EXCEPT !.pos = np]

RECURSIVE AdvanceAll(_, _)
AdvanceAll(S, b) ==
  IF S = {} THEN EmptyBag
  ELSE LET n == CHOOSE x \in S : TRUE
       IN  [x \in {NodeAdvance(n)} |-> b[n]] (+) AdvanceAll(S \ {n}, b)

\* the player gives up its reference to node n: the platform keeps the node
\* for as long as it emits or owes its "ended" event
Unreferenced(b, n) ==
  IF n.state \in {"null", "dead"} THEN b ELSE b (+) SetToBag({n})

RECURSIVE CountPlaying(_, _)
CountPlaying(S, b) ==
  IF S = {} THEN 0
  ELSE LET n == CHOOSE x \in S : TRUE
       IN  (IF n.state = "playing" THEN b[n] ELSE 0)
             + CountPlaying(S \ {n}, b)

\* number of nodes emitting sound
Emitting ==
  (IF source.state = "playing" THEN 1 ELSE 0)
    + CountPlaying(BagToSet(others), others)

\* ---------------------------------------------------------- PCMPlayer ----
\* getCurrentTime() that forgets "time % this.buffer.duration"
getCurrentTimeNoWrap(w) ==
  IF ~w.isPlaying THEN w.pauseOffset
  ELSE w.pauseOffset + (w.ctxTime - w.startTime) * w.playbackRate

getCurrentTimeOf(w) ==
  IF ~w.isPlaying THEN w.pauseOffset
  ELSE LET time == w.pauseOffset + (w.ctxTime - w.startTime) * w.playbackRate
       IN  IF w.loop /\ w.buffer.loaded /\ Duration(w.buffer) > 0
             THEN time % Duration(w.buffer)
             ELSE time

getCurrentTime == getCurrentTimeOf(World)

getDuration == IF buffer.loaded THEN Duration(buffer) ELSE 0

startProgressTimer(w) ==
  LET id == requestAnimationFrame(w)
  IN  [w EXCEPT !.animationFrameId = id, !.rafQueue = @ \cup {id}]

\* AudioBufferSourceNode.start(0, offset): offset is clamped into
\* [0, duration]; a looping node at the end of its buffer is at its beginning
NodeStartPos(offset, d, looping) ==
  LET clamped == Max(0, Min(offset, d))
  IN  IF looping /\ d > 0 THEN clamped % d ELSE clamped

\* play(), from "if (!this.buffer || this.isPlaying) return" to its end
playBody(w, a) ==
  IF ~w.buffer.loaded \/ w.isPlaying THEN w
  ELSE LET d == Duration(w.buffer)
           n == [buffer |-> w.buffer, rate |-> w.playbackRate,
                 loop |-> a.loop,
                 pos |-> NodeStartPos(w.pauseOffset, d, a.loop),
                 state |-> "playing", onEnded |-> a.onEnded]
       IN  startProgressTimer(
             [w EXCEPT !.onProgressCb = a.onProgress,
                       !.onEndedCb = a.onEnded,
                       !.loop = a.loop,
                       !.source = n,
                       !.others = Unreferenced(@, w.source),
                       !.created = @ + 1,
                       !.startTime = w.ctxTime,
                       !.isPlaying = TRUE,
                       !.started = [offset |-> w.pauseOffset,
                                    steady |-> TRUE, bySeek |-> a.bySeek]])

\* play() that does not wait for the resume of a suspended context
playNoAwait(w, a) == playBody(w, a)

\* play(): suspends at "await this.audioContext.resume()" when suspended
play(w, a) ==
  IF w.ctxState = "suspended"
    THEN [w EXCEPT !.waiters = Append(@, a)]
    ELSE playBody(w, a)

\* pause() that forgets the cancelAnimationFrame of its last line
pauseKeepsPoll(w) ==
  IF ~w.isPlaying THEN w
  ELSE [w EXCEPT !.pauseOffset =
                    @ + (w.ctxTime - w.startTime) * w.playbackRate,
                 !.others = Unreferenced(@, NodeStop(w.source)),
                 !.source = NoSource,
                 !.started = NotStarted,
                 !.isPlaying = FALSE]

\* pause() without its "if (!this.isPlaying) return"
pauseUnguarded(w) ==
  cancelAnimationFrame(
    [w EXCEPT !.pauseOffset =
                 @ + (w.ctxTime - w.startTime) * w.playbackRate,
              !.others = Unreferenced(@, NodeStop(w.source)),
              !.source = NoSource,
              !.started = NotStarted,
              !.isPlaying = FALSE])

pause(w) ==
  IF ~w.isPlaying THEN w
  ELSE cancelAnimationFrame(
         [w EXCEPT !.pauseOffset =
                      @ + (w.ctxTime - w.startTime) * w.playbackRate,
                   !.others = Unreferenced(@, NodeStop(w.source)),
                   !.source = NoSource,
                   !.started = NotStarted,
                   !.isPlaying = FALSE])

\* stop() that forgets its cancelAnimationFrame
stopKeepsPoll(w) ==
  [w EXCEPT !.others = Unreferenced(@, NodeStop(w.source)),
            !.source = NoSource,
            !.started = NotStarted,
            !.isPlaying = FALSE,
            !.pauseOffset = 0]

stop(w) ==
  cancelAnimationFrame(
    [w EXCEPT !.others = Unreferenced(@, NodeStop(w.source)),
              !.source = NoSource,
              !.started = NotStarted,
              !.isPlaying = FALSE,
              !.pauseOffset = 0])

\* seek() that clamps its argument into [0, duration]
seekClamped(w, seconds) ==
  LET wasPlaying == w.isPlaying
      d == IF w.buffer.loaded THEN Duration(w.buffer) ELSE 0
      w1 == [stop(w) EXCEPT !.pauseOffset = Max(0, Min(seconds, d))]
  IN  IF wasPlaying
        THEN play(w1, [onProgress |-> w1.onProgressCb,
                       onEnded |-> w1.onEndedCb, loop |-> w1.loop,
                       bySeek |-> TRUE])
        ELSE w1

seek(w, seconds) ==
  LET wasPlaying == w.isPlaying
      w1 == [stop(w) EXCEPT !.pauseOffset = seconds]
  IN  IF wasPlaying
        THEN play(w1, [onProgress |-> w1.onProgressCb,
                       onEnded |-> w1.onEndedCb, loop |-> w1.loop,
                       bySeek |-> TRUE])
        ELSE w1

\* an exception of rawPcmToAudioBuffer leaves load() before any assignment
load(w, rawPcm) ==
  LET b == rawPcmToAudioBuffer(rawPcm)
  IN  IF b.error # "none" THEN w
      ELSE [w EXCEPT !.buffer = b, !.pauseOffset = 0]

setRate(w, rate) ==
  [w EXCEPT !.playbackRate = rate,
            !.source = NodeSetRate(@, rate),
            !.started.steady =
               @ /\ (w.source.state = "null" \/ w.playbackRate = rate)]

\* a play() that swallows the rejection of the resume and carries on
resumeRejectedIgnored(w) ==
  [playBody(w, Head(w.waiters)) EXCEPT !.waiters = <<>>]

\* "await this.audioContext.resume()" throws in every waiting play(): each
\* returns a rejected promise and runs nothing of what follows the await
resumeRejected(w) == [w EXCEPT !.waiters = <<>>]

\* source.onended of a node whose play() captured onEnded = cb
onended(w, cb, natural) ==
  IF w.loop THEN w
  ELSE LET w1 == cancelAnimationFrame([w EXCEPT !.isPlaying = FALSE])
       IN  IF cb # "none"
             THEN [w1 EXCEPT !.calls = Append(@, [kind |-> "onEnded",
                                                  cb |-> cb,
                                                  natural |-> natural])]
             ELSE w1

\* the update closure of startProgressTimer, run for request id
update(w, id) ==
  LET w1 == [w EXCEPT !.rafQueue = @ \ {id}]
  IN  IF w1.isPlaying /\ w1.onProgressCb # "none" /\ w1.buffer.loaded
        THEN LET w2 == [w1 EXCEPT
                          !.calls = Append(@, [kind |-> "onProgress",
                                               cb |-> w1.onProgressCb,
                                               natural |-> FALSE,
                                               current |-> getCurrentTimeOf(w1),
                                               duration |-> Duration(w1.buffer)])]
                 nid == requestAnimationFrame(w2)
             IN  [w2 EXCEPT !.animationFrameId = nid,
                            !.rafQueue = @ \cup {nid}]
        ELSE w1

\* ------------------------------------------------------------ actions ----
NotDecoded == [done |-> FALSE, result |-> NullBuffer]

PlayerInit ==
  /\ ctxState = "suspended"
  /\ ctxTime = 0
  /\ buffer = NullBuffer
  /\ source = NoSource
  /\ isPlaying = FALSE
  /\ playbackRate = DefaultRate
  /\ pauseOffset = 0
  /\ startTime = 0
  /\ onProgressCb = "none"
  /\ onEndedCb = "none"
  /\ loop = FALSE
  /\ animationFrameId = 0
  /\ others = EmptyBag
  /\ created = 0
  /\ rafQueue = {}
  /\ waiters = <<>>
  /\ microtasks = <<>>
  /\ tornDown = FALSE
  /\ lastOp = Op("init", FALSE)
  /\ calls = <<>>
  /\ started = NotStarted

\* the decoder has not been called
DecIdle ==
  /\ pcmData = <<>>
  /\ decoded = NotDecoded

NotRendered == [done |-> FALSE, index |-> -1]

\* no dialogue is rendered
LineIdle ==
  /\ lineIn = [appState |-> "IDLE", isPlaying |-> FALSE, audioProgress |-> 0,
               lines |-> <<>>]
  /\ activeLine = NotRendered

\* the module has been loaded and getSharedAudioContext not yet called; the
\* one context the player of Spec holds is followed through ctxState
CtxIdle ==
  /\ contexts = <<>>
  /\ sharedAudioContext = 0
  /\ clients = <<>>

\* the state of a DialogueCard after its first render and its mount effects
Mounted ==
  [mounted |-> TRUE, step |-> "blind", appState |-> "IDLE",
   isPlaying |-> FALSE, isLoadingAudio |-> FALSE, playbackError |-> FALSE,
   cachedRawPcm |-> FALSE, referenceAudioBuffer |-> FALSE]

\* no handler of the view is in flight
ViewIdle ==
  /\ view = Mounted
  /\ toggles = <<>>

\* no canvas has been drawn
NotDrawn ==
  [i |-> 0, seen |-> 0, union |-> {},
   bar |-> [min |-> Int16Scale, max |-> 0 - Int16Scale, indices |-> {},
            h |-> Int16Scale, drawn |-> FALSE]]

WaveIdle ==
  /\ waveIn = NullBuffer
  /\ wave = NotDrawn

\* safeGenerateContent(params) is called: retries = 3, delay = 1500
DefaultRetries == 3
DefaultDelay == 1500

GenStart ==
  [pc |-> "call", key |-> TRUE, retries |-> DefaultRetries,
   delay |-> DefaultDelay, attempts |-> 0, errors |-> <<>>, waited |-> <<>>,
   thrown |-> "none", rawPcm |-> <<>>, loads |-> 0]

\* getDictationDiff at its entry, for two empty texts
DiffStart ==
  [masterWords |-> <<>>, userWords |-> <<>>, masterIdx |-> 0, userIdx |-> 0,
   correctCount |-> 0, tokens |-> <<>>, done |-> FALSE, score |-> 0]

\* none of the pure functions has been called
PureIdle ==
  /\ WaveIdle
  /\ gen = GenStart
  /\ diff = DiffStart

Init ==
  /\ PlayerInit
  /\ DecIdle
  /\ LineIdle
  /\ CtxIdle
  /\ ViewIdle
  /\ PureIdle

\* a caller holding the player may call it between tasks
Callable == ~tornDown /\ microtasks = <<>>

Fits(w) == w.created <= MaxSources /\ Len(w.waiters) <= MaxWaiters

Load ==
  \E rawPcm \in PcmInputs :
    /\ Callable
    /\ Commit(load(World, rawPcm),
              Op(IF rawPcmToAudioBuffer(rawPcm).error # "none"
                   THEN "loadThrew" ELSE "load", isPlaying))
    /\ UNCHANGED tornDown

SetRate ==
  \E rate \in Rates :
    /\ Callable
    /\ Commit(setRate(World, rate), Op("setRate", FALSE))
    /\ UNCHANGED tornDown

Play ==
  \E a \in PlayArgs :
    /\ Callable
    /\ Fits(play(World, a))
    /\ Commit(play(World, a), Op("play", isPlaying))
    /\ UNCHANGED tornDown

Pause ==
  /\ Callable
  /\ Commit(pause(World), Op("pause", isPlaying))
  /\ UNCHANGED tornDown

Stop ==
  /\ Callable
  /\ Commit(stop(World), Op("stop", FALSE))
  /\ UNCHANGED tornDown

Seek ==
  \E seconds \in SeekTargets :
    /\ Callable
    /\ Fits(seek(World, seconds))
    /\ Commit(seek(World, seconds),
              [Op("seek", isPlaying) EXCEPT !.arg = seconds])
    /\ UNCHANGED tornDown

\* DialogueCard unmount: pcmPlayer.current?.stop(); pcmPlayer.current = null
Teardown ==
  /\ Callable
  /\ Commit(stop(World), Op("stop", FALSE))
  /\ tornDown' = TRUE

\* the resume() promises of the waiting play() calls resolve
ResumeComplete ==
  /\ microtasks = <<>>
  /\ waiters # <<>>
  /\ Commit([World EXCEPT !.ctxState = "running", !.microtasks = waiters,
                          !.waiters = <<>>],
            Event)
  /\ UNCHANGED tornDown

\* the resume() promises of the waiting play() calls are rejected; lastOp.arg
\* is the number of play() promises rejected with it
ResumeReject ==
  /\ microtasks = <<>>
  /\ waiters # <<>>
  /\ Commit(resumeRejected(World),
            [Op("resumeRejected", FALSE) EXCEPT !.arg = Len(waiters)])
  /\ UNCHANGED tornDown

\* the rest of a play() that was waiting for the resume
PlayContinue ==
  /\ microtasks # <<>>
  /\ LET w == playBody([World EXCEPT !.microtasks = Tail(@)],
                       Head(microtasks))
     IN  /\ Fits(w)
         /\ Commit(w, Event)
  /\ UNCHANGED tornDown

\* the output-context clock advances by one tick; every emitting node renders.
\* The clock is only read through currentTime - startTime while isPlaying, so
\* ticks that pass while the player is stopped and silent are not taken.
Tick ==
  /\ microtasks = <<>>
  /\ ctxState = "running"
  /\ ctxTime < MaxTime
  /\ isPlaying \/ Emitting > 0
  /\ Commit([World EXCEPT !.ctxTime = @ + 1,
                          !.source = NodeAdvance(@),
                          !.others = AdvanceAll(BagToSet(@), @)],
            Event)
  /\ UNCHANGED tornDown

\* the "ended" event of the node this.source refers to is delivered
EndedSource ==
  /\ microtasks = <<>>
  /\ EndedQueued(source)
  /\ Commit(onended([World EXCEPT !.source = Node("dead", "none")],
                    source.onEnded, source.state = "finished"),
            EndedEvent(source))
  /\ UNCHANGED tornDown

\* the "ended" event of a node the player no longer refers to is delivered
EndedOther ==
  \E n \in BagToSet(others) :
    /\ microtasks = <<>>
    /\ EndedQueued(n)
    /\ Commit(onended([World EXCEPT !.others = @ (-) SetToBag({n})],
                      n.onEnded, n.state = "finished"),
              EndedEvent(n))
    /\ UNCHANGED tornDown

\* an animation frame runs one pending request
Frame ==
  \E id \in rafQueue :
    /\ microtasks = <<>>
    /\ Commit(update(World, id), Event)
    /\ UNCHANGED tornDown

Next ==
  \/ Load
  \/ SetRate
  \/ Play
  \/ Pause
  \/ Stop
  \/ Seek
  \/ Teardown
  \/ ResumeComplete
  \/ ResumeReject
  \/ PlayContinue
  \/ Tick
  \/ EndedSource
  \/ EndedOther
  \/ Frame

Spec == Init /\ [][Next]_vars

\* ------------------------------------------------ the decoder on its own ----
DecInit ==
  /\ PlayerInit
  /\ LineIdle
  /\ CtxIdle
  /\ ViewIdle
  /\ PureIdle
  /\ pcmData \in ByteSeqs
  /\ decoded = NotDecoded

\* rawPcmToAudioBuffer(pcmData, ctx) is called
Decode ==
  /\ ~decoded.done
  /\ decoded' = [done |-> TRUE, result |-> rawPcmToAudioBuffer(pcmData)]
  /\ UNCHANGED << playerVars, lineVars, ctxVars, viewVars, pureVars, pcmData >>

DecNext == Decode

DecSpec == DecInit /\ [][DecNext]_vars

\* ------------------------------------------ the shared context on its own ----
CtxInit ==
  /\ PlayerInit
  /\ DecIdle
  /\ LineIdle
  /\ CtxIdle
  /\ ViewIdle
  /\ PureIdle

ModuleState == [contexts |-> contexts, shared |-> sharedAudioContext]

\* a caller obtains the context: new PCMPlayer() (kind "player", the field
\* initialiser of audioContext) or a handler of the view (kind "view")
Obtain(kind) ==
  /\ Len(clients) < MaxClients
  /\ LET g == getSharedAudioContext(ModuleState)
     IN  /\ contexts' = g.contexts
         /\ sharedAudioContext' = g.shared
         /\ clients' = Append(clients, [kind |-> kind, audioContext |-> g.shared,
                                        waiting |-> FALSE])
  /\ UNCHANGED << playerVars, decVars, lineVars, viewVars, pureVars >>

NewPlayer == Obtain("player")

ViewCall == Obtain("view")

\* if (ctx.state === 'suspended') await ctx.resume(), in play() of a player
\* and in handlePlayToggle of the view
ClientResume ==
  \E i \in DOMAIN clients :
    /\ ~clients[i].waiting
    /\ contexts[clients[i].audioContext].state = "suspended"
    /\ clients' = [clients EXCEPT ![i].waiting = TRUE]
    /\ UNCHANGED << playerVars, decVars, lineVars, viewVars, pureVars,
                    contexts, sharedAudioContext >>

\* the holders that await the resume of context c
Awaiting(c) ==
  { i \in DOMAIN clients : clients[i].waiting /\ clients[i].audioContext = c }

\* the platform resumes context c: its resume() promises resolve
ClientResumeComplete ==
  \E c \in DOMAIN contexts :
    /\ Awaiting(c) # {}
    /\ contexts' = [contexts EXCEPT ![c].state = "running"]
    /\ clients' = [i \in DOMAIN clients |->
                     IF i \in Awaiting(c)
                       THEN [clients[i] EXCEPT !.waiting = FALSE]
                       ELSE clients[i]]
    /\ UNCHANGED << playerVars, decVars, lineVars, viewVars, pureVars,
                    sharedAudioContext >>

\* the platform rejects the resume() promises of context c
ClientResumeReject ==
  \E c \in DOMAIN contexts :
    /\ Awaiting(c) # {}
    /\ clients' = [i \in DOMAIN clients |->
                     IF i \in Awaiting(c)
                       THEN [clients[i] EXCEPT !.waiting = FALSE]
                       ELSE clients[i]]
    /\ UNCHANGED << playerVars, decVars, lineVars, viewVars, pureVars,
                    contexts, sharedAudioContext >>

CtxNext ==
  \/ NewPlayer
  \/ ViewCall
  \/ ClientResume
  \/ ClientResumeComplete
  \/ ClientResumeReject

CtxSpec == CtxInit /\ [][CtxNext]_vars

\* ------------------------------------- the active-line mapping on its own ----
LineInit ==
  /\ PlayerInit
  /\ DecIdle
  /\ CtxIdle
  /\ ViewIdle
  /\ PureIdle
  /\ lineIn \in [appState : AppStates, isPlaying : BOOLEAN,
                  audioProgress : Progresses, lines : Dialogues]
  /\ activeLine = NotRendered

\* the useMemo of activeLineIndex is evaluated in a render
Render ==
  /\ ~activeLine.done
  /\ activeLine' = [done |-> TRUE, index |-> activeLineIndex(lineIn)]
  /\ UNCHANGED << playerVars, decVars, ctxVars, viewVars, pureVars,
                  lineIn >>

LineNext == Render

LineSpec == LineInit /\ [][LineNext]_vars

\* ------------------------------------------------------ the dialogue view ----
\* DialogueCard (src/components/DialogueCard.tsx) driving its PCMPlayer.  A
\* handler sees the state of the render it was created in; state set by a
\* handler is rendered before the next task.  A handler that awaits is kept in
\* toggles: pc "resume" (awaiting ctx.resume()), "ready" (the resume resolved,
\* its continuation is a pending microtask) or "fetch" (awaiting fetchTtsAudio).
\* Every continuation of a resolved await chain runs as microtasks, before any
\* other task.

\* handlePlayToggle calls that may be suspended at the same time
MaxToggles == 2

\* LearningStep; "read" stands for the two steps without a transport
Steps == {"blind", "dictation", "read"}

\* steps whose panel has the play button (lines 247 and 274)
TransportSteps == {"blind", "dictation"}

\* outcomes of fetchTtsAudio: it throws, or returns the decoded bytes
FetchFailed == [ok |-> FALSE, rawPcm |-> <<>>]
FetchOutcomes ==
  {FetchFailed} \cup { [ok |-> TRUE, rawPcm |-> b] : b \in { <<7>>, <<0, 128>> } }

\* positions of the scrub slider, in percent
ScrubPercents == {0, 50, 100}

\* seconds of the rewind button, in position units
RewindBy == 10 * SampleRate * DefaultRate

\* the callbacks handlePlayToggle passes to play()
ToggleArgs(t) ==
  [onProgress |-> "setAudioProgress", onEnded |-> "setIdle",
   loop |-> (t.step = "blind"), bySeek |-> FALSE]

\* a state setter called after the unmount has no effect
SetState(v, nv) == IF v.mounted THEN nv ELSE v

\* a view whose onEnded closure does nothing
applyCallsIgnored(v, cs) == v

\* the onEnded closure of handlePlayToggle, for each time the player called it
applyCalls(v, cs) ==
  IF \E i \in DOMAIN cs : cs[i].kind = "onEnded"
    THEN SetState(v, [v EXCEPT !.isPlaying = FALSE, !.appState = "IDLE"])
    ELSE v

\* "await pcmPlayer.current?.play(...); setIsPlaying(true)": the context is
\* running here, so play() does not suspend
playPart(w, v, t, torn) ==
  [w |-> IF torn THEN w ELSE play(w, ToggleArgs(t)),
   v |-> SetState(v, [v EXCEPT !.isPlaying = TRUE]),
   fetch |-> FALSE]

\* handlePlayToggle from line 164 up to the await of the fetch
handlePlayToggle(w, v, t, torn) ==
  IF t.isPlaying
    THEN [w |-> IF torn THEN w ELSE pause(w),
          v |-> SetState(v, [v EXCEPT !.isPlaying = FALSE,
                                      !.appState = "IDLE"]),
          fetch |-> FALSE]
    ELSE LET v1 == SetState(v, [v EXCEPT !.appState = "PLAYING_AUDIO"])
         IN  IF t.cached
               THEN playPart(w, v1, t, torn)
               ELSE [w |-> w,
                     v |-> SetState(v1, [v1 EXCEPT !.isLoadingAudio = TRUE,
                                                   !.playbackError = FALSE]),
                     fetch |-> TRUE]

\* loadAudioIfNeeded from the resolution of its await to its return value
loadAudioIfNeeded(w, v, outcome, torn) ==
  IF ~outcome.ok
    THEN [w |-> w,
          v |-> SetState(v, [v EXCEPT !.playbackError = TRUE,
                                      !.isLoadingAudio = FALSE]),
          ok |-> FALSE]
    ELSE LET v1 == SetState(v, [v EXCEPT !.cachedRawPcm = TRUE])
         IN  IF torn
               THEN [w |-> w,
                     v |-> SetState(v1, [v1 EXCEPT !.isLoadingAudio = FALSE]),
                     ok |-> TRUE]
               ELSE IF rawPcmToAudioBuffer(outcome.rawPcm).error # "none"
                      THEN [w |-> w,
                            v |-> SetState(v1,
                                    [v1 EXCEPT !.playbackError = TRUE,
                                               !.isLoadingAudio = FALSE]),
                            ok |-> FALSE]
                      ELSE [w |-> load(w, outcome.rawPcm),
                            v |-> SetState(v1,
                                    [v1 EXCEPT !.referenceAudioBuffer = TRUE,
                                               !.isLoadingAudio = FALSE]),
                            ok |-> TRUE]

\* handlePlayToggle from the resolution of "await loadAudioIfNeeded()"
afterLoad(w, v, t, outcome, torn) ==
  LET l == loadAudioIfNeeded(w, v, outcome, torn)
  IN  IF ~l.ok
        THEN [w |-> l.w,
              v |-> SetState(l.v, [l.v EXCEPT !.appState = "IDLE"]),
              fetch |-> FALSE]
        ELSE playPart(l.w, l.v, t, torn)

\* the sequence s without its element i
Without(s, i) == SubSeq(s, 1, i - 1) \o SubSeq(s, i + 1, Len(s))

\* no continuation is pending as a microtask
Quiet == \A i \in DOMAIN toggles : toggles[i].pc # "ready"

ViewFits(w) == w.created <= MaxSources /\ w.waiters = <<>>

\* a step of the view, or of the platform under a mounted view: the player's
\* callbacks set the state of the view
ViewCommit(w, op, v, ts) ==
  /\ ViewFits(w)
  /\ CommitPlayer(w, op)
  /\ view' = applyCalls(v, w.calls)
  /\ toggles' = ts
  /\ UNCHANGED << decVars, lineVars, ctxVars, pureVars >>

ViewInit ==
  /\ PlayerInit
  /\ DecIdle
  /\ LineIdle
  /\ CtxIdle
  /\ ViewIdle
  /\ PureIdle

\* a click on the play button: handlePlayToggle up to its first await
Toggle ==
  /\ Quiet
  /\ view.mounted
  /\ view.step \in TransportSteps
  /\ LET t == [pc |-> "resume", isPlaying |-> view.isPlaying,
               cached |-> view.cachedRawPcm /\ view.referenceAudioBuffer,
               step |-> view.step]
     IN  IF ctxState = "suspended"
           THEN /\ Len(toggles) < MaxToggles
                /\ ViewCommit(World, Op("toggle", isPlaying), view,
                              Append(toggles, t))
           ELSE LET r == handlePlayToggle(World, view, t, tornDown)
                IN  /\ r.fetch => Len(toggles) < MaxToggles
                    /\ ViewCommit(r.w, Op("toggle", isPlaying), r.v,
                                  IF r.fetch
                                    THEN Append(toggles,
                                                [t EXCEPT !.pc = "fetch"])
                                    ELSE toggles)
  /\ UNCHANGED tornDown

\* the platform resumes the context: every pending resume() promise resolves
ToggleResumeComplete ==
  /\ Quiet
  /\ \E i \in DOMAIN toggles : toggles[i].pc = "resume"
  /\ ViewCommit([World EXCEPT !.ctxState = "running"], Event, view,
                [i \in DOMAIN toggles |->
                   IF toggles[i].pc = "resume"
                     THEN [toggles[i] EXCEPT !.pc = "ready"]
                     ELSE toggles[i]])
  /\ UNCHANGED tornDown

\* the platform rejects the pending resume() promises: every handlePlayToggle
\* waiting at line 163 throws
ToggleResumeReject ==
  /\ Quiet
  /\ \E i \in DOMAIN toggles : toggles[i].pc = "resume"
  /\ ViewCommit(World, Op("toggleThrew", isPlaying), view,
                SelectSeq(toggles, LAMBDA t : t.pc # "resume"))
  /\ UNCHANGED tornDown

\* the continuation of the first handlePlayToggle whose resume resolved
ToggleContinue ==
  /\ ~Quiet
  /\ LET i == CHOOSE j \in DOMAIN toggles :
                /\ toggles[j].pc = "ready"
                /\ \A k \in 1..(j - 1) : toggles[k].pc # "ready"
         r == handlePlayToggle(World, view, toggles[i], tornDown)
     IN  ViewCommit(r.w, Op("toggleContinue", isPlaying), r.v,
                    IF r.fetch
                      THEN [toggles EXCEPT ![i].pc = "fetch"]
                      ELSE Without(toggles, i))
  /\ UNCHANGED tornDown

\* fetchTtsAudio settles for one waiting handlePlayToggle, which then runs to
\* its end; lastOp.arg is the number of sources the player had created before
FetchDone ==
  \E i \in DOMAIN toggles, outcome \in FetchOutcomes :
    /\ Quiet
    /\ toggles[i].pc = "fetch"
    /\ LET r == afterLoad(World, view, toggles[i], outcome, tornDown)
           failed == ~loadAudioIfNeeded(World, view, outcome, tornDown).ok
       IN  ViewCommit(r.w,
                      [Op(IF failed THEN "loadFailed" ELSE "loaded", isPlaying)
                         EXCEPT !.arg = created],
                      r.v, Without(toggles, i))
    /\ UNCHANGED tornDown

\* setStep(s) and the effect of lines 142-145 that follows its render
StepChange ==
  \E s \in Steps \ {view.step} :
    /\ Quiet
    /\ view.mounted
    /\ ViewCommit(stop(World), Op("stepChange", isPlaying),
                  [view EXCEPT !.step = s, !.appState = "IDLE",
                               !.isPlaying = FALSE, !.playbackError = FALSE],
                  toggles)
    /\ UNCHANGED tornDown

\* the cleanup of the mount effect (line 137)
Unmount ==
  /\ Quiet
  /\ view.mounted
  /\ ViewCommit(stop(World), Op("unmount", isPlaying),
                [view EXCEPT !.mounted = FALSE], toggles)
  /\ tornDown' = TRUE

\* the rewind button of the blind step (line 246)
Rewind ==
  /\ Quiet
  /\ view.mounted
  /\ view.step = "blind"
  /\ LET seconds == Max(0, getCurrentTime - RewindBy)
     IN  ViewCommit(seek(World, seconds),
                    [Op("seek", isPlaying) EXCEPT !.arg = seconds],
                    view, toggles)
  /\ UNCHANGED tornDown

\* the scrub slider of the blind step (line 250)
Scrub ==
  \E p \in ScrubPercents :
    /\ Quiet
    /\ view.mounted
    /\ view.step = "blind"
    /\ LET seconds == (p * getDuration) \div 100
       IN  ViewCommit(seek(World, seconds),
                      [Op("seek", isPlaying) EXCEPT !.arg = seconds],
                      view, toggles)
    /\ UNCHANGED tornDown

\* the speed buttons of the dictation step (line 270)
Speed ==
  \E rate \in Rates :
    /\ Quiet
    /\ view.mounted
    /\ view.step = "dictation"
    /\ ViewCommit(setRate(World, rate), Op("setRate", FALSE), view, toggles)
    /\ UNCHANGED tornDown

ViewTick ==
  /\ Quiet
  /\ ctxState = "running"
  /\ ctxTime < MaxTime
  /\ isPlaying \/ Emitting > 0
  /\ ViewCommit([World EXCEPT !.ctxTime = @ + 1,
                              !.source = NodeAdvance(@),
                              !.others = AdvanceAll(BagToSet(@), @)],
                Event, view, toggles)
  /\ UNCHANGED tornDown

ViewEndedSource ==
  /\ Quiet
  /\ EndedQueued(source)
  /\ ViewCommit(onended([World EXCEPT !.source = Node("dead", "none")],
                        source.onEnded, source.state = "finished"),
                EndedEvent(source), view, toggles)
  /\ UNCHANGED tornDown

ViewEndedOther ==
  \E n \in BagToSet(others) :
    /\ Quiet
    /\ EndedQueued(n)
    /\ ViewCommit(onended([World EXCEPT !.others = @ (-) SetToBag({n})],
                          n.onEnded, n.state = "finished"),
                  EndedEvent(n), view, toggles)
    /\ UNCHANGED tornDown

ViewFrame ==
  \E id \in rafQueue :
    /\ Quiet
    /\ ViewCommit(update(World, id), Event, view, toggles)
    /\ UNCHANGED tornDown

ViewNext ==
  \/ Toggle
  \/ ToggleResumeComplete
  \/ ToggleResumeReject
  \/ ToggleContinue
  \/ FetchDone
  \/ StepChange
  \/ Unmount
  \/ Rewind
  \/ Scrub
  \/ Speed
  \/ ViewTick
  \/ ViewEndedSource
  \/ ViewEndedOther
  \/ ViewFrame

ViewSpec == ViewInit /\ [][ViewNext]_vars

\* ------------------------------------- the waveform renderer on its own ----
\* WaveformVisualizer (src/components/DialogueCard.tsx, lines 63-86).  Sample
\* values are the numerators of the decoder; a bar height h is kept as
\* h * Int16Scale, so that one pixel is Int16Scale.

\* longest buffer drawn, in samples
MaxWaveLen == 601

\* const width = Math.max(buffer.duration * 50, 300); height = 64
PixelsPerSecond == 50
MinWidth == 300
DefaultHeight == 64

\* sample k (from 0) of the buffers drawn: silence, a signal of one quantum,
\* a ramp, and a full-scale square wave
waveSample(shape, k) ==
  CASE shape = "silence" -> 0
    [] shape = "quantum" -> k % 2
    [] shape = "ramp" -> (((k * 37) % 101) - 50) * 300
    [] OTHER -> IF k % 2 = 0 THEN 0 - Int16Scale ELSE Int16Scale - 1

WaveBuffers ==
  { [loaded |-> TRUE, error |-> "none",
     channelData |-> [k \in 1..n |-> waveSample(shape, k - 1)]] :
      n \in {1, MinWidth, MinWidth + 1, MaxWaveLen - 1, MaxWaveLen},
      shape \in {"silence", "quantum", "ramp", "square"} }

\* width * SampleRate, with buffer.duration = length / SampleRate
widthScaled(b) ==
  Max(Len(b.channelData) * PixelsPerSecond, MinWidth * SampleRate)

\* a step rounded down instead of up
stepFloor(b) == (Len(b.channelData) * SampleRate) \div widthScaled(b)

\* const step = Math.ceil(rawData.length / width)
waveStep(b) ==
  (Len(b.channelData) * SampleRate + widthScaled(b) - 1) \div widthScaled(b)

\* the inner loop "for (let j = 0; j < step; j++)" from j on, with its break
RECURSIVE scanWindow(_, _, _, _, _)
scanWindow(rawData, step, i, j, a) ==
  IF j >= step \/ (i * step) + j >= Len(rawData) THEN a
  ELSE LET index == (i * step) + j
           datum == rawData[index + 1]
       IN  scanWindow(rawData, step, i, j + 1,
                      [min |-> IF datum < a.min THEN datum ELSE a.min,
                       max |-> IF datum > a.max THEN datum ELSE a.max,
                       indices |-> a.indices \cup {index}])

\* one iteration of "for (let i = 0; i < width; i++)": the bar of column i
drawColumn(b, i) ==
  LET amp == DefaultHeight \div 2
      s == scanWindow(b.channelData, waveStep(b), i, 0,
                      [min |-> Int16Scale, max |-> 0 - Int16Scale,
                       indices |-> {}])
      h == Max(Int16Scale, (s.max - s.min) * amp)
  IN  [min |-> s.min, max |-> s.max, indices |-> s.indices, h |-> h,
       drawn |-> h > Int16Scale]

WaveInit ==
  /\ PlayerInit
  /\ DecIdle
  /\ LineIdle
  /\ CtxIdle
  /\ ViewIdle
  /\ waveIn \in WaveBuffers
  /\ wave = NotDrawn
  /\ gen = GenStart
  /\ diff = DiffStart

\* the effect draws the next column while i < width
DrawColumn ==
  /\ waveIn.loaded
  /\ wave.i * SampleRate < widthScaled(waveIn)
  /\ LET bar == drawColumn(waveIn, wave.i)
     IN  wave' = [i |-> wave.i + 1, bar |-> bar,
                  seen |-> wave.seen + Cardinality(bar.indices),
                  union |-> wave.union \cup bar.indices]
  /\ UNCHANGED << playerVars, decVars, lineVars, ctxVars, viewVars, waveIn,
                  gen, diff >>

WaveNext == DrawColumn

WaveSpec == WaveInit /\ [][WaveNext]_vars

\* ------------------------------------------- the service call on its own ----
\* fetchTtsAudio through safeGenerateContent (src/index.tsx, lines 91-104 and
\* 222-229), followed by the load() of loadAudioIfNeeded.  gen.pc is "call"
\* (at the entry of safeGenerateContent), "request" (awaiting
\* generateContent), "sleep" (awaiting the setTimeout), "returned", "threw",
\* or "loaded" (the bytes were handed to the player).

\* failures of generateContent: error.status and whether error.message
\* includes '429'
GenErrors ==
  { [status |-> 429, has429 |-> FALSE], [status |-> 500, has429 |-> TRUE],
    [status |-> 500, has429 |-> FALSE] }

\* a classification that takes every failure for a rate limit
isAnyFailure(error) == error \in GenErrors

\* const isRateLimit = error?.status === 429 || error?.message?.includes('429')
isRateLimit(error) == error.status = 429 \/ error.has429

GenInit ==
  /\ PlayerInit
  /\ DecIdle
  /\ LineIdle
  /\ CtxIdle
  /\ ViewIdle
  /\ WaveIdle
  /\ diff = DiffStart
  /\ \E key \in BOOLEAN : gen = [GenStart EXCEPT !.key = key]

GenStep(g) ==
  /\ gen' = g
  /\ UNCHANGED << playerVars, decVars, lineVars, ctxVars, viewVars, waveVars,
                  diff >>

\* getAiClient(), "if (!ai) throw", and the call of generateContent
GenEnter ==
  /\ gen.pc = "call"
  /\ GenStep(IF ~gen.key
               THEN [gen EXCEPT !.pc = "threw", !.thrown = "MISSING_API_KEY"]
               ELSE [gen EXCEPT !.pc = "request", !.attempts = @ + 1])

\* generateContent resolves: decodeBase64 of the audio of the response
GenResolve ==
  \E rawPcm \in { <<7>>, <<0, 128>> } :
    /\ gen.pc = "request"
    /\ GenStep([gen EXCEPT !.pc = "returned", !.rawPcm = rawPcm])

\* generateContent rejects: the catch block
GenReject ==
  \E error \in GenErrors :
    /\ gen.pc = "request"
    /\ GenStep(IF isRateLimit(error) /\ gen.retries > 0
                 THEN [gen EXCEPT !.pc = "sleep",
                                  !.errors = Append(@, error),
                                  !.waited = Append(@, gen.delay)]
                 ELSE [gen EXCEPT !.pc = "threw", !.thrown = "error",
                                  !.errors = Append(@, error)])

\* the timer fires: return safeGenerateContent(params, retries - 1, delay * 2)
GenTimer ==
  /\ gen.pc = "sleep"
  /\ GenStep([gen EXCEPT !.pc = "call", !.retries = @ - 1, !.delay = @ * 2])

\* the key is saved or removed in the settings while the call is awaiting
GenKeyChange ==
  /\ gen.pc \in {"request", "sleep"}
  /\ GenStep([gen EXCEPT !.key = ~@])

\* pcmPlayer.current.load(rawPcm) with the bytes fetchTtsAudio returned
GenLoad ==
  /\ gen.pc = "returned"
  /\ gen' = [gen EXCEPT !.pc = "loaded", !.loads = @ + 1]
  /\ CommitPlayer(load(World, gen.rawPcm),
                  Op(IF rawPcmToAudioBuffer(gen.rawPcm).error # "none"
                       THEN "loadThrew" ELSE "load", isPlaying))
  /\ UNCHANGED << tornDown, decVars, lineVars, ctxVars, viewVars, waveVars,
                  diff >>

\* the steps of the call itself
GenRun ==
  \/ GenEnter
  \/ GenResolve
  \/ GenReject
  \/ GenTimer
  \/ GenLoad

GenNext ==
  \/ GenRun
  \/ GenKeyChange

\* every promise the call awaits settles, and its continuation then runs
GenSpec == GenInit /\ [][GenNext]_vars /\ WF_vars(GenRun)

\* ---------------------------------------- the dictation diff on its own ----
\* getDictationDiff (src/components/DialogueCard.tsx, lines 29-61), one
\* action per iteration of its while loop.  masterWords and userWords are the
\* results of split(/\s+/).filter(Boolean): their elements are non-empty, so
\* "masterWord &&" tests that masterIdx is within the list.

\* longest word list compared
MaxWords == 3

\* the words of the texts: two spellings of one word, and another word
Words == {"cat", "Cat.", "dog"}
WordLists == UNION { [1..n -> Words] : n \in 0..MaxWords }

\* s.toLowerCase().replace(/[.,!?;:"()]/g, '').trim()
normalize(s) == IF s = "Cat." THEN "cat" ELSE s

\* tokens.push({status, ...}) and the increments that follow it
pushToken(d, status, dm, du, dc) ==
  [d EXCEPT !.tokens = Append(@, status), !.masterIdx = @ + dm,
            !.userIdx = @ + du, !.correctCount = @ + dc]

\* a loop body whose 'incorrect' branch forgets userIdx++
diffBodyKeepsUser(d) ==
  LET m == d.masterWords
      u == d.userWords
      hasM(k) == k < Len(m)
      hasU(k) == k < Len(u)
      eq(i, j) == normalize(m[i + 1]) = normalize(u[j + 1])
      mi == d.masterIdx
      ui == d.userIdx
  IN  IF hasM(mi) /\ hasU(ui) /\ eq(mi, ui)
        THEN pushToken(d, "correct", 1, 1, 1)
      ELSE IF hasM(mi) /\ hasU(ui)
        THEN IF hasU(ui + 1) /\ eq(mi, ui + 1)
               THEN pushToken(d, "extra", 0, 1, 0)
             ELSE IF hasM(mi + 1) /\ eq(mi + 1, ui)
               THEN pushToken(d, "missing", 1, 0, 0)
             ELSE pushToken(d, "incorrect", 1, 0, 0)
      ELSE IF hasM(mi) THEN pushToken(d, "missing", 1, 0, 0)
      ELSE IF hasU(ui) THEN pushToken(d, "extra", 0, 1, 0)
      ELSE d

\* the body of the while loop
diffBody(d) ==
  LET m == d.masterWords
      u == d.userWords
      hasM(k) == k < Len(m)
      hasU(k) == k < Len(u)
      eq(i, j) == normalize(m[i + 1]) = normalize(u[j + 1])
      mi == d.masterIdx
      ui == d.userIdx
  IN  IF hasM(mi) /\ hasU(ui) /\ eq(mi, ui)
        THEN pushToken(d, "correct", 1, 1, 1)
      ELSE IF hasM(mi) /\ hasU(ui)
        THEN IF hasU(ui + 1) /\ eq(mi, ui + 1)
               THEN pushToken(d, "extra", 0, 1, 0)
             ELSE IF hasM(mi + 1) /\ eq(mi + 1, ui)
               THEN pushToken(d, "missing", 1, 0, 0)
             ELSE pushToken(d, "incorrect", 1, 1, 0)
      ELSE IF hasM(mi) THEN pushToken(d, "missing", 1, 0, 0)
      ELSE IF hasU(ui) THEN pushToken(d, "extra", 0, 1, 0)
      ELSE d

\* masterIdx < masterWords.length || userIdx < userWords.length
diffLoops(d) ==
  d.masterIdx < Len(d.masterWords) \/ d.userIdx < Len(d.userWords)

\* Math.round((correctCount / Math.max(1, masterWords.length)) * 100)
diffScore(d) ==
  LET n == Max(1, Len(d.masterWords))
  IN  (200 * d.correctCount + n) \div (2 * n)

DiffInit ==
  /\ PlayerInit
  /\ DecIdle
  /\ LineIdle
  /\ CtxIdle
  /\ ViewIdle
  /\ WaveIdle
  /\ gen = GenStart
  /\ \E m \in WordLists, u \in WordLists :
       diff = [DiffStart EXCEPT !.masterWords = m, !.userWords = u]

\* one iteration of the while loop
DiffIterate ==
  /\ ~diff.done
  /\ diffLoops(diff)
  /\ diff' = diffBody(diff)
  /\ UNCHANGED << playerVars, decVars, lineVars, ctxVars, viewVars, waveVars,
                  gen >>

\* the loop is left and the result returned
DiffReturn ==
  /\ ~diff.done
  /\ ~diffLoops(diff)
  /\ diff' = [diff EXCEPT !.done = TRUE, !.score = diffScore(diff)]
  /\ UNCHANGED << playerVars, decVars, lineVars, ctxVars, viewVars, waveVars,
                  gen >>

DiffNext ==
  \/ DiffIterate
  \/ DiffReturn

DiffSpec == DiffInit /\ [][DiffNext]_vars

\* ------------------------------------------------------------- claims ----

\* C1: at any instant at most one audio source created by the player is
\* emitting sound, whatever the sequence of calls and asynchronous events.
C1_AtMostOneSourceEmitting == Emitting <= 1

\* C2: while the source started by a previous play() call is still emitting (no
\* pause, stop or natural end since), a further play() -- or the continuation
\* of one that waited for the resume -- creates no source and changes nothing
\* of the player.
C2_SecondPlayIsNoOp ==
  [][ (source.state = "playing" /\ ~started.bySeek
         /\ lastOp'.op \notin {"seek", "stop", "pause"})
        => /\ created' = created
           /\ (lastOp'.op = "play" => UNCHANGED << source, isPlaying, loop,
                 onProgressCb, onEndedCb, pauseOffset, startTime, rafQueue >>)
    ]_vars

\* C3: when the end notification of a non-looping playback that ran to the
\* end of its buffer is delivered, the player has isPlaying = false, no
\* progress poll is pending, and the onEnded given to that play() has been
\* invoked exactly once.
C3_NaturalEndReported ==
  (lastOp.op = "endedNatural" /\ lastOp.cb # "none")
    => /\ ~isPlaying
       /\ rafQueue = {}
       /\ calls = << [kind |-> "onEnded", cb |-> lastOp.cb, natural |-> TRUE] >>

\* C4: onEnded is invoked only for the natural completion of a playback,
\* never for a source halted by pause(), stop(), seek() or left by load().
C4_OnEndedOnlyOnNaturalEnd ==
  \A i \in DOMAIN calls : calls[i].kind = "onEnded" => calls[i].natural

\* C5: seek(s) while playing leaves the player playing: right after it exactly
\* one source is emitting, started at offset s, getCurrentTime() = s, and the
\* callbacks and loop flag are those registered before; as long as that source
\* emits and nobody pauses or stops it, the player stays in the playing state.
C5_SeekKeepsPlaying ==
  /\ [][ (lastOp'.op = "seek" /\ lastOp'.wasPlaying)
          => /\ isPlaying'
             /\ Emitting' = 1
             /\ source'.state = "playing"
             /\ started'.offset = lastOp'.arg
             /\ getCurrentTime' = lastOp'.arg
             /\ onProgressCb' = onProgressCb
             /\ onEndedCb' = onEndedCb
             /\ loop' = loop
             /\ source'.onEnded = onEndedCb
             /\ source'.loop = loop ]_vars
  /\ []((started.bySeek /\ source.state = "playing") => isPlaying)

\* C6: pause() on a source that was started at offset p and has played its
\* buffer at the constant rate r for t ticks (no load() in between) leaves
\* getCurrentTime() = p + t * r; while the player stays paused only load, stop
\* and seek move that position; and the next play() hands exactly that
\* position to the source it starts.
C6_PauseFreezesPosition ==
  /\ [][ (/\ lastOp'.op = "pause"
          /\ source.state = "playing"
          /\ started.steady
          /\ pauseOffset = started.offset)
          => /\ ~isPlaying'
             /\ pauseOffset' =
                  started.offset + (ctxTime - startTime) * playbackRate
             /\ getCurrentTime' = pauseOffset' ]_vars
  /\ [][ (~isPlaying /\ ~isPlaying' /\ lastOp'.op \notin {"load", "stop", "seek"})
          => pauseOffset' = pauseOffset ]_vars
  /\ [][ (created' > created /\ lastOp'.op # "seek")
          => started'.offset = pauseOffset ]_vars

\* C7: after the view has torn the player down, no callback is invoked and
\* the player starts no source.
C7_NothingAfterTeardown ==
  [][ tornDown => (created' = created /\ calls' = <<>>) ]_vars

\* C8: no progress poll is pending and no onProgress is delivered while the
\* player is not playing.
C8_NoPollWhileNotPlaying ==
  /\ ~isPlaying => rafQueue = {}
  /\ \A i \in DOMAIN calls : calls[i].kind = "onProgress" => isPlaying

\* a pause() has just stopped a playback whose poll was reporting progress
C8_Witness ==
  /\ lastOp.op = "pause"
  /\ lastOp.wasPlaying
  /\ onProgressCb # "none"
  /\ ~isPlaying
  /\ rafQueue = {}

\* C9: while the source of a play(onProgress, ...) is still emitting, the
\* progress poll is scheduled for the next animation frame.
C9_PollWhileEmitting ==
  (source.state = "playing" /\ onProgressCb # "none")
    => animationFrameId \in rafQueue

\* C10: after load() called while a source is playing, no source is
\* emitting, the player is stopped at position 0 and owns the new buffer.
C10_LoadStopsPlayback ==
  (lastOp.op = "load" /\ lastOp.wasPlaying)
    => /\ Emitting = 0
       /\ ~isPlaying
       /\ pauseOffset = 0
       /\ buffer.loaded


\* C11: play() on a player with no loaded buffer, together with the resume it
\* requests and its continuation, creates no source, invokes no callback and
\* leaves isPlaying, pauseOffset, the registered callbacks, the loop flag, the
\* poll and the state of the shared output context as they were.
C11_PlayWithoutBufferIsInert ==
  [][ (~buffer.loaded /\ lastOp'.op \in {"play", "event"})
        => /\ created' = created
           /\ calls' = <<>>
           /\ UNCHANGED << source, isPlaying, pauseOffset, onProgressCb,
                           onEndedCb, loop, animationFrameId, rafQueue >>
           /\ ctxState' = ctxState ]_vars


\* C12: once the end notification of a non-looping playback that ran to the
\* end of its buffer has been delivered, the player is stopped at position 0:
\* getCurrentTime() = 0, and a play() that follows starts its source at the
\* beginning of the buffer, whatever offset the ended playback started from.
C12_NaturalEndResetsPosition ==
  /\ []((lastOp.op = "endedNatural" /\ ~loop /\ source.state = "dead")
          => /\ ~isPlaying
             /\ pauseOffset = 0
             /\ getCurrentTime = 0)
  /\ [][ (/\ lastOp.op = "endedNatural" /\ ~loop /\ source.state = "dead"
          /\ lastOp'.op = "play" /\ created' > created)
          => source'.pos = 0 ]_vars


\* C13: while the player is playing with its loop flag set, getCurrentTime()
\* is (pauseOffset + elapsed * playbackRate) modulo the duration of the
\* buffer, hence below the duration; it is the position the looping source is
\* at when the source was started inside the player's buffer and plays it at
\* an unchanged rate; and no onEnded is invoked as long as the loop flag is set.
C13_LoopWrapsAndNeverEnds ==
  /\ (isPlaying /\ loop /\ buffer.loaded)
       => /\ getCurrentTime =
               (pauseOffset + (ctxTime - startTime) * playbackRate)
                 % Duration(buffer)
          /\ getCurrentTime >= 0
          /\ getCurrentTime < Duration(buffer)
  /\ (/\ isPlaying /\ loop /\ source.state = "playing"
      /\ source.buffer = buffer /\ started.steady
      /\ pauseOffset = started.offset
      /\ started.offset <= Duration(buffer))
       => getCurrentTime = source.pos
  /\ (source.state = "playing" /\ source.loop) => (isPlaying /\ loop)
  /\ loop => \A i \in DOMAIN calls : calls[i].kind # "onEnded"

\* a looping playback started at offset 2 has run past the end of its buffer
\* and reports position 2 again
C13_Witness ==
  /\ isPlaying /\ loop
  /\ source.state = "playing" /\ source.loop
  /\ pauseOffset = 2
  /\ pauseOffset + (ctxTime - startTime) * playbackRate >= Duration(buffer) + 2
  /\ getCurrentTime = 2


\* C14: in every state of a player that holds a buffer and whose loop flag is
\* set, the current position getCurrentTime() is non-negative and below the
\* duration of the buffer, while playing and after a pause() alike.
C14_LoopPositionWrapped ==
  (loop /\ buffer.loaded)
    => /\ getCurrentTime >= 0
       /\ getCurrentTime < Duration(buffer)


\* C15: for a player that holds a buffer and whose loop flag is not set, the
\* position getCurrentTime() lies in [0, duration], and so does every
\* currentSeconds the poll passes to onProgress.
C15_PositionWithinDuration ==
  /\ (~loop /\ buffer.loaded)
       => /\ getCurrentTime >= 0
          /\ getCurrentTime <= Duration(buffer)
  /\ \A i \in DOMAIN calls :
       (calls[i].kind = "onProgress" /\ ~loop)
         => /\ calls[i].current >= 0
            /\ calls[i].current <= calls[i].duration


\* C16: stop(), in any state, leaves the player without a source, nothing the
\* player created emitting, no progress poll pending, isPlaying = false and
\* pauseOffset = 0, with the buffer and the playback rate as they were; a
\* play() that follows starts that buffer from position 0.
C16_StopResetsPlayer ==
  /\ [][ lastOp'.op = "stop"
          => /\ source' = NoSource
             /\ Emitting' = 0
             /\ rafQueue' = {}
             /\ ~isPlaying'
             /\ pauseOffset' = 0
             /\ getCurrentTime' = 0
             /\ buffer' = buffer
             /\ playbackRate' = playbackRate ]_vars
  /\ [][ (lastOp.op = "stop" /\ lastOp'.op = "play" /\ created' > created)
          => /\ source'.pos = 0
             /\ source'.buffer = buffer
             /\ source'.rate = playbackRate ]_vars


\* C17: when the resume of the output context is rejected, every play() that
\* was waiting for it is rejected and the player is left as it was before
\* those calls: isPlaying false, no source created, no poll started, and
\* pauseOffset, the registered callbacks and the loop flag unchanged.
C17_ResumeRejectionKeepsPrePlayState ==
  [][ (waiters # <<>> /\ lastOp'.op = "resumeRejected")
        => /\ lastOp'.arg = Len(waiters)
           /\ waiters' = <<>> /\ microtasks' = <<>>
           /\ ~isPlaying'
           /\ created' = created
           /\ source' = source
           /\ rafQueue' = rafQueue /\ animationFrameId' = animationFrameId
           /\ pauseOffset' = pauseOffset
           /\ onProgressCb' = onProgressCb /\ onEndedCb' = onEndedCb
           /\ loop' = loop
           /\ calls' = <<>>
           /\ ctxState' = "suspended" ]_vars

\* a play() on a loaded player has just been rejected with the resume
C17_Witness ==
  /\ lastOp.op = "resumeRejected"
  /\ lastOp.arg >= 1
  /\ buffer.loaded
  /\ ~isPlaying /\ created = 0 /\ rafQueue = {}


\* C18: the player creates and starts a source only while the output context
\* is running: a play() called on a suspended context starts its source after
\* the resume has completed, and nothing emits while the context is suspended.
C18_NoStartWhileSuspended ==
  /\ [][ created' > created
          => (ctxState = "running" /\ ctxState' = "running") ]_vars
  /\ []((Emitting > 0 \/ isPlaying) => ctxState = "running")
  /\ [][ (ctxState = "suspended" /\ lastOp'.op = "play")
          => (created' = created /\ ~isPlaying' /\ source' = source) ]_vars

\* the continuation of a play() that was called on a suspended context has
\* just started the first source, the resume having completed
C18_Witness ==
  /\ lastOp.op = "event"
  /\ ctxState = "running"
  /\ created = 1
  /\ source.state = "playing"
  /\ isPlaying
  /\ ctxTime = 0
  /\ rafQueue # {}
  /\ calls = <<>>


\* C19: decoding any byte sequence succeeds and yields floor(length / 2)
\* samples (none for a sequence of zero or one byte), and an odd-length
\* sequence decodes to what its even-length prefix decodes to.
C19_DecodeLengthAndOddPrefix ==
  decoded.done
    => /\ decoded.result.error = "none"
       /\ decoded.result.loaded
       /\ Len(decoded.result.channelData) = Len(pcmData) \div 2
       /\ (Len(pcmData) % 2 = 1)
            => decoded.result =
                 rawPcmToAudioBuffer(SubSeq(pcmData, 1, Len(pcmData) - 1))

C25_RateChangeKeepsPosition ==
  /\ [][ (lastOp'.op = "setRate" /\ isPlaying /\ source.state = "playing")
          => getCurrentTime' = getCurrentTime ]_vars
  /\ [][ (/\ lastOp'.op = "pause" /\ isPlaying
          /\ source.state = "playing" /\ ~source.loop
          /\ source.buffer = buffer
          /\ pauseOffset = started.offset
          /\ started.offset <= Duration(buffer))
          => pauseOffset' = source.pos ]_vars


\* C26: setRate() while a source is active neither stops nor restarts the
\* playback (no source is created, isPlaying and the registered callbacks are
\* unchanged, the same source keeps emitting), and in every state every
\* source of the player that is emitting plays at the player's playbackRate.
C26_ActiveSourcePlaysAtPlayerRate ==
  /\ [][ (lastOp'.op = "setRate" /\ source.state = "playing")
          => /\ created' = created
             /\ isPlaying' = isPlaying
             /\ onProgressCb' = onProgressCb /\ onEndedCb' = onEndedCb
             /\ loop' = loop
             /\ source' = [source EXCEPT !.rate = playbackRate']
             /\ rafQueue' = rafQueue ]_vars
  /\ [](source.state = "playing" => source.rate = playbackRate)
  /\ [](\A n \in BagToSet(others) :
          n.state = "playing" => n.rate = playbackRate)


\* C27: the delivery of the end notification of a source that was halted by
\* pause(), stop() or seek() changes nothing: isPlaying and the progress poll
\* stay as they are and no onEnded is invoked.
C27_StaleEndHasNoEffect ==
  [][ lastOp'.op = "endedStopped"
        => /\ isPlaying' = isPlaying
           /\ rafQueue' = rafQueue
           /\ animationFrameId' = animationFrameId
           /\ calls' = <<>> ]_vars


\* C28: isPlaying is true exactly when a source created by the player is
\* emitting; a source that has played its buffer to the end counts as
\* emitting until its end notification has been delivered.
C28_IsPlayingIffEmitting ==
  /\ Emitting > 0 => isPlaying
  /\ isPlaying => (Emitting > 0 \/ source.state = "finished")


\* C29: seek(s) while the player is not playing leaves it not playing, creates
\* no source, starts no poll and sets the position to s unclamped:
\* getCurrentTime() = s, also for an s beyond the duration; and a play() that
\* follows hands s to the start of its source.
C29_SeekWhileStoppedSetsPosition ==
  /\ [][ (lastOp'.op = "seek" /\ ~isPlaying)
          => /\ ~isPlaying'
             /\ created' = created
             /\ source' = NoSource
             /\ rafQueue' = {}
             /\ calls' = <<>>
             /\ pauseOffset' = lastOp'.arg
             /\ getCurrentTime' = lastOp'.arg ]_vars
  /\ [][ (/\ lastOp.op = "seek" /\ ~lastOp.wasPlaying
          /\ lastOp'.op = "play" /\ created' > created)
          => /\ started'.offset = lastOp.arg
             /\ source'.pos =
                  NodeStartPos(lastOp.arg, Duration(buffer), loop') ]_vars

\* a stopped player with the one-sample buffer has been sought beyond the
\* end of the buffer
C29_Witness ==
  /\ lastOp.op = "seek" /\ ~lastOp.wasPlaying
  /\ buffer.loaded
  /\ lastOp.arg > Duration(buffer)
  /\ ~isPlaying
  /\ getCurrentTime = lastOp.arg

\* C30: pause() while the player is not playing changes nothing: pauseOffset,
\* buffer, playback rate, callbacks, loop flag, source and poll stay as they
\* are, so a pause() repeated after a pause leaves the frozen position alone.
C30_PauseWhileStoppedIsNoOp ==
  [][ (lastOp'.op = "pause" /\ ~isPlaying)
        => /\ UNCHANGED << pauseOffset, buffer, playbackRate, onProgressCb,
                           onEndedCb, loop, source, others, isPlaying,
                           startTime, animationFrameId, rafQueue, created >>
           /\ getCurrentTime' = getCurrentTime
           /\ calls' = <<>> ]_vars

\* a pause() has been called on a player that an earlier pause() had frozen
\* at a position after the start of the buffer
C30_Witness ==
  /\ lastOp.op = "pause" /\ ~lastOp.wasPlaying
  /\ ~isPlaying
  /\ source = NoSource
  /\ buffer.loaded
  /\ ctxTime >= 1
  /\ pauseOffset = ctxTime * playbackRate


\* C22: the active-line mapping yields the no-active-line sentinel -1 whenever
\* the progress is exactly 0 and whenever it is at least 99.9, whatever
\* appState and the UI playing flag are.
C22_NoActiveLineAtZeroAndEnd ==
  (/\ activeLine.done
   /\ (lineIn.audioProgress = 0 \/ lineIn.audioProgress >= ProgressScale - 1))
    => activeLine.index = NoActiveLine

\* C23: for a dialogue with at least one line and a progress p with
\* 0 < p < 99.9, the mapping yields the index i of the line whose half-open
\* span [start_i, end_i), end_i = start_i + length_i + 5, contains
\* currentPos = (p / 100) * totalLength; a currentPos on the boundary between
\* line i and line i+1 maps to i+1.
C23_ActiveLineHalfOpenSpan ==
  (/\ activeLine.done
   /\ Len(lineIn.lines) >= 1
   /\ lineIn.audioProgress > 0
   /\ lineIn.audioProgress < ProgressScale - 1)
    => /\ activeLine.index \in 0..(Len(lineIn.lines) - 1)
       /\ LET i == activeLine.index
              start == accBefore(lineIn.lines, i)
              end == accBefore(lineIn.lines, i + 1)
              scaledPos == lineIn.audioProgress * totalChars(lineIn.lines)
          IN  /\ start * ProgressScale <= scaledPos
              /\ scaledPos < end * ProgressScale


\* C21: exactly one output context is ever constructed, by the first call of
\* getSharedAudioContext(); every caller, player or view, holds that same
\* context; and the context is never closed, replaced or reconfigured: the
\* only change it undergoes is the resume from suspended to running.
C21_OneSharedContext ==
  /\ [](/\ Len(contexts) <= 1
        /\ sharedAudioContext = Len(contexts)
        /\ \A i \in DOMAIN clients :
             clients[i].audioContext = 1 /\ sharedAudioContext = 1
        /\ \A c \in DOMAIN contexts :
             /\ contexts[c].sampleRate = SampleRate
             /\ contexts[c].state \in {"suspended", "running"})
  /\ [][ /\ Len(contexts') > Len(contexts)
            => (sharedAudioContext = 0 /\ clients = <<>>)
         /\ \A c \in DOMAIN contexts :
              /\ c \in DOMAIN contexts'
              /\ \/ contexts'[c] = contexts[c]
                 \/ /\ contexts[c].state = "suspended"
                    /\ contexts'[c] = [contexts[c] EXCEPT !.state = "running"]
         /\ (sharedAudioContext # 0 => sharedAudioContext' = sharedAudioContext)
     ]_vars

\* two players and two view handlers hold the context, which has been resumed
C21_Witness ==
  /\ Len(clients) = MaxClients
  /\ \E i \in DOMAIN clients : clients[i].kind = "player" /\ i > 1
  /\ \E i \in DOMAIN clients : clients[i].kind = "view" /\ i > 1
  /\ Len(contexts) = 1
  /\ contexts[1].state = "running"


\* C24: when the fetch or the load of the reference audio fails during a play
\* toggle, the mounted view is left idle and replayable: appState is IDLE, the
\* UI playing flag and the loading flag are false, an error message is set,
\* the player has started no source (none was created by the toggle and none
\* is playing), and the audio is not marked as cached, so that a later toggle
\* attempts the load again.
C24_LoadFailureLeavesViewIdle ==
  [][(lastOp'.op = "loadFailed" /\ view'.mounted)
       => /\ view'.appState = "IDLE"
          /\ ~view'.isPlaying
          /\ ~view'.isLoadingAudio
          /\ view'.playbackError
          /\ created' = created
          /\ ~isPlaying'
          /\ source'.state # "playing"
          /\ ~(view'.cachedRawPcm /\ view'.referenceAudioBuffer)]_vars


\* C31: a play toggle that was waiting for the context resume or for the audio
\* load when the learner switched to another step, or left the view, has no
\* later effect: when every toggle in flight was abandoned in that way, a
\* continuation of one of them creates no source and does not turn the UI
\* playing flag or appState to playing.
C31_AbandonedToggleHasNoEffect ==
  [][(/\ lastOp'.op \in {"toggleContinue", "loaded", "loadFailed"}
      /\ \A i \in DOMAIN toggles :
           ~view.mounted \/ toggles[i].step # view.step)
       => /\ created' = created
          /\ view'.isPlaying => view.isPlaying
          /\ view'.appState = "PLAYING_AUDIO"
               => view.appState = "PLAYING_AUDIO"]_vars


\* C32: once every pending handler and callback of the mounted view has run
\* (no handlePlayToggle is suspended and no "ended" event is queued), the UI
\* playing flag equals the playing flag of the player.
C32_UiFlagAgreesWithPlayer ==
  (/\ view.mounted
   /\ toggles = <<>>
   /\ ~EndedQueued(source)
   /\ \A n \in BagToSet(others) : ~EndedQueued(n))
    => (view.isPlaying = isPlaying)

\* both flags are back to false after a natural end in the dictation step, and
\* both are true in a second playback there
C32_Witness ==
  /\ view.mounted
  /\ toggles = <<>>
  /\ ~EndedQueued(source)
  /\ \A n \in BagToSet(others) : ~EndedQueued(n)
  /\ view.step = "dictation"
  /\ \/ lastOp.op = "endedNatural" /\ ~view.isPlaying /\ ~isPlaying
     \/ created >= 2 /\ view.isPlaying /\ isPlaying


\* C33: the reference audio is requested at most once at a time: at most one
\* handlePlayToggle awaits fetchTtsAudio at any instant, and load() is not
\* called on a player that already holds the buffer of an earlier request.
C33_OneAudioRequestAtATime ==
  /\ [](Cardinality({ i \in DOMAIN toggles : toggles[i].pc = "fetch" }) <= 1)
  /\ [][(lastOp'.op = "loaded" /\ ~tornDown) => ~buffer.loaded]_vars


\* C34: at most one progress poll loop is scheduled per player at any instant:
\* at most one animation-frame request of the player is pending, it is the one
\* animationFrameId names, and a step invokes onProgress at most once.
C34_AtMostOnePollLoop ==
  /\ Cardinality(rafQueue) <= 1
  /\ rafQueue \subseteq {animationFrameId}
  /\ Cardinality({ i \in DOMAIN calls : calls[i].kind = "onProgress" }) <= 1

\* a seek during playback has stopped and restarted the source: one request
\* is pending, not the old one and the new one
C34_Witness ==
  /\ lastOp.op = "seek"
  /\ lastOp.wasPlaying
  /\ isPlaying
  /\ created >= 2
  /\ Cardinality(rafQueue) = 1


\* C35: for a dialogue with at least one line and a progress p with
\* 0 < p < 99.9 the active-line index is a line of the dialogue (never -1), and
\* it is non-decreasing in p: no larger progress below 99.9 maps to an
\* earlier line.
C35_ActiveLineDefinedAndMonotone ==
  (/\ activeLine.done
   /\ Len(lineIn.lines) >= 1
   /\ lineIn.audioProgress > 0
   /\ lineIn.audioProgress < ProgressScale - 1)
    => /\ activeLine.index \in 0..(Len(lineIn.lines) - 1)
       /\ \A q \in Progresses :
            (lineIn.audioProgress <= q /\ q < ProgressScale - 1)
              => activeLine.index
                   <= activeLineIndex([lineIn EXCEPT !.audioProgress = q])

\* a progress on the boundary between two lines of equal length, and one
\* inside the second line
C35_Witness ==
  /\ activeLine.done
  /\ Len(lineIn.lines) = 2
  /\ lineIn.lines[1] = lineIn.lines[2]
  /\ \/ lineIn.audioProgress = 500 /\ activeLine.index = 0
     \/ lineIn.audioProgress = 750 /\ activeLine.index = 1


\* C36 (as claimed): with step = ceil(sampleCount / width), the window of
\* column i is exactly the samples with index in
\* [i*step, min((i+1)*step, sampleCount)), the bar of a column that has
\* samples is computed from their minimum and maximum and its height is
\* (max - min) * height / 2, and once the canvas is drawn every sample has
\* been read in exactly one window.
C36_WindowsAndProportionalBars ==
  LET n == Len(waveIn.channelData)
      step == CHOOSE s \in 0..n :
                /\ s * widthScaled(waveIn) >= n * SampleRate
                /\ \A t \in 0..(s - 1) :
                     t * widthScaled(waveIn) < n * SampleRate
      i == wave.i - 1
      window == { k \in 0..(n - 1) : i * step <= k /\ k < (i + 1) * step }
      lo == CHOOSE x \in { waveIn.channelData[k + 1] : k \in window } :
              \A k \in window : x <= waveIn.channelData[k + 1]
      hi == CHOOSE x \in { waveIn.channelData[k + 1] : k \in window } :
              \A k \in window : x >= waveIn.channelData[k + 1]
  IN  /\ wave.i > 0
        => /\ wave.bar.indices = window
           /\ window # {}
                => /\ wave.bar.min = lo
                   /\ wave.bar.max = hi
                   /\ (IF wave.bar.drawn THEN wave.bar.h ELSE 0)
                        = (hi - lo) * (DefaultHeight \div 2)
      /\ (wave.i > 0 /\ wave.i * SampleRate >= widthScaled(waveIn))
        => /\ wave.union = 0..(n - 1)
           /\ wave.seen = n

\* C36 (amended): as claimed, except that a bar is drawn only when
\* (max - min) * height / 2 exceeds one pixel; a drawn bar has that height and
\* a column without samples has no bar.
C36_WindowsAndThresholdedBars ==
  LET n == Len(waveIn.channelData)
      step == CHOOSE s \in 0..n :
                /\ s * widthScaled(waveIn) >= n * SampleRate
                /\ \A t \in 0..(s - 1) :
                     t * widthScaled(waveIn) < n * SampleRate
      i == wave.i - 1
      window == { k \in 0..(n - 1) : i * step <= k /\ k < (i + 1) * step }
      lo == CHOOSE x \in { waveIn.channelData[k + 1] : k \in window } :
              \A k \in window : x <= waveIn.channelData[k + 1]
      hi == CHOOSE x \in { waveIn.channelData[k + 1] : k \in window } :
              \A k \in window : x >= waveIn.channelData[k + 1]
      height == (hi - lo) * (DefaultHeight \div 2)
  IN  /\ wave.i > 0
        => /\ wave.bar.indices = window
           /\ window = {} => ~wave.bar.drawn
           /\ window # {}
                => /\ wave.bar.min = lo
                   /\ wave.bar.max = hi
                   /\ wave.bar.drawn <=> height > Int16Scale
                   /\ wave.bar.drawn => wave.bar.h = height
      /\ (wave.i > 0 /\ wave.i * SampleRate >= widthScaled(waveIn))
        => /\ wave.union = 0..(n - 1)
           /\ wave.seen = n

\* a window of three samples of the ramp has been drawn as a bar, and the
\* whole canvas of a buffer longer than its width has been drawn
C36_Witness ==
  \/ /\ Cardinality(wave.bar.indices) = 3
     /\ wave.bar.drawn
     /\ wave.bar.max > wave.bar.min
  \/ /\ Len(waveIn.channelData) > MinWidth
     /\ wave.i = MinWidth
     /\ wave.seen = Len(waveIn.channelData)


\* C37: a service call through safeGenerateContent makes at most 4 attempts
\* and then ends: it waits only after a failure that carries 429, at most 3
\* times, for 1500, 3000 and 6000 ms; any other failure is rethrown at once;
\* without an API key no attempt is made; the bytes are handed to the player
\* at most once, and a load() that throws is followed by no further attempt.
C37_AtMostFourAttempts ==
  /\ [](/\ gen.attempts <= DefaultRetries + 1
        /\ Len(gen.waited) <= DefaultRetries
        /\ \A i \in DOMAIN gen.waited :
             /\ gen.waited[i] = DefaultDelay * (2 ^ (i - 1))
             /\ gen.errors[i].status = 429 \/ gen.errors[i].has429
        /\ gen.attempts <= Len(gen.waited) + 1
        /\ gen.loads <= 1)
  /\ [][/\ (gen.pc = "call" /\ ~gen.key)
            => (gen'.pc = "threw" /\ gen'.attempts = gen.attempts)
        /\ (/\ gen.pc = "request" /\ gen'.pc # "request"
            /\ Len(gen'.errors) > Len(gen.errors)
            /\ LET e == gen'.errors[Len(gen'.errors)]
               IN  e.status # 429 /\ ~e.has429)
            => (gen'.pc = "threw" /\ gen'.waited = gen.waited)
        /\ gen.pc \in {"threw", "loaded"} => gen' = gen
        /\ lastOp'.op = "loadThrew"
            => (gen'.pc = "loaded" /\ gen'.attempts = gen.attempts)]_vars
  /\ <>(gen.pc \in {"threw", "loaded"})

\* the fourth attempt has been made after three waits
C37_Witness ==
  /\ gen.attempts = DefaultRetries + 1
  /\ gen.waited = << 1500, 3000, 6000 >>
  /\ gen.pc \in {"threw", "loaded"}


\* C38: getDictationDiff terminates and accounts for every word exactly once:
\* every iteration of its loop advances masterIdx or userIdx, so that there
\* are at most as many tokens as words; in the result the tokens with status
\* correct, incorrect or missing are as many as the master words, those with
\* status correct, incorrect or extra as many as the user words, and the
\* score is an integer from 0 to 100.
C38_EveryWordAccountedOnce ==
  /\ [](LET count(S) ==
              Cardinality({ i \in DOMAIN diff.tokens : diff.tokens[i] \in S })
        IN  /\ Len(diff.tokens)
                 <= Len(diff.masterWords) + Len(diff.userWords)
            /\ diff.done
                 => /\ count({"correct", "incorrect", "missing"})
                        = Len(diff.masterWords)
                    /\ count({"correct", "incorrect", "extra"})
                        = Len(diff.userWords)
                    /\ diff.score \in 0..100)
  /\ [][diff'.done
          \/ diff'.masterIdx + diff'.userIdx
               > diff.masterIdx + diff.userIdx]_vars

\* a result that holds a token of each of the four kinds
C38_Witness ==
  /\ diff.done
  /\ \A s \in {"correct", "incorrect", "missing", "extra"} :
       \E i \in DOMAIN diff.tokens : diff.tokens[i] = s

====
